---------------------------- MODULE Spec2Model ----------------------------
(***************************************************************************)
(* Vibe Music API (src/main.py, src/schemas.py): the nine store-touching   *)
(* request handlers over the three collections song, playlist and channel, *)
(* and the keyword intent parser ai_command.                               *)
(*                                                                         *)
(* Strings are TLA+ strings, taken apart with Len, SubSeq and \o.  An      *)
(* Optional[str] is a tuple of length at most one: None is << >>, the      *)
(* string s is <<s>>.                                                      *)
(***************************************************************************)
EXTENDS Integers, Sequences, FiniteSets, TLC

\* ------------------------------------------------------------------------
\* Bounds of the model
\* ------------------------------------------------------------------------
MaxWords == 2
MaxSongs == 1
MaxPlaylists == 1
MaxCreatedChannels == 1
MaxAdds == 2

\* ------------------------------------------------------------------------
\* Python str primitives
\* ------------------------------------------------------------------------
None == << >>

Some(s) == <<s>>

CharAt(s, i) == SubSeq(s, i, i)

UpperAlpha == "ABCDEFGHIJKLMNOPQRSTUVWXYZ"

LowerAlpha == "abcdefghijklmnopqrstuvwxyz"

UpperChars == {CharAt(UpperAlpha, i) : i \in 1..Len(UpperAlpha)}

LowerOf ==
    [c \in UpperChars |->
        CharAt(LowerAlpha, CHOOSE i \in 1..Len(UpperAlpha) : CharAt(UpperAlpha, i) = c)]

\* str.lower() on one character
LowerChar(c) == IF c \in UpperChars THEN LowerOf[c] ELSE c

RECURSIVE lower(_)
lower(s) ==
    IF s = "" THEN "" ELSE LowerChar(CharAt(s, 1)) \o lower(Tail(s))

IsSpace(c) == c \in {" ", "\t", "\n", "\r"}

RECURSIVE lstrip(_)
lstrip(s) ==
    IF s # "" /\ IsSpace(CharAt(s, 1)) THEN lstrip(Tail(s)) ELSE s

RECURSIVE rstrip(_)
rstrip(s) ==
    IF s # "" /\ IsSpace(CharAt(s, Len(s)))
    THEN rstrip(SubSeq(s, 1, Len(s) - 1))
    ELSE s

\* str.strip()
strip(s) == rstrip(lstrip(s))

StartsWith(s, k) == Len(k) <= Len(s) /\ SubSeq(s, 1, Len(k)) = k

\* k in s
Contains(s, k) ==
    \E i \in 1..(Len(s) - Len(k) + 1) : SubSeq(s, i, i + Len(k) - 1) = k

\* s.replace(old, ""), old non-empty: leftmost occurrences, left to right,
\* never overlapping
RECURSIVE replace(_, _)
replace(s, old) ==
    IF Len(s) < Len(old) THEN s
    ELSE IF StartsWith(s, old)
         THEN replace(SubSeq(s, Len(old) + 1, Len(s)), old)
         ELSE CharAt(s, 1) \o replace(Tail(s), old)

\* bool(s) of an Optional[str]: None and "" are false
Truthy(o) == o # None /\ o[1] # ""


\* ------------------------------------------------------------------------
\* The store's regular expressions ({"$regex": p, "$options": "i"}):
\* literal characters, ".", "^", "$" and top-level "|", searched anywhere in
\* the subject, ignoring case.  A pattern with unbalanced parentheses does
\* not compile and the query raises.
\* ------------------------------------------------------------------------
RECURSIVE ParenDepthOK(_, _)
ParenDepthOK(p, depth) ==
    IF p = "" THEN depth = 0
    ELSE LET c == CharAt(p, 1) IN
         IF c = "(" THEN ParenDepthOK(Tail(p), depth + 1)
         ELSE IF c = ")" THEN depth > 0 /\ ParenDepthOK(Tail(p), depth - 1)
         ELSE ParenDepthOK(Tail(p), depth)

RegexCompiles(p) == ParenDepthOK(p, 0)

\* the alternatives of p, split at "|"
RECURSIVE Alternatives(_, _)
Alternatives(p, cur) ==
    IF p = "" THEN <<cur>>
    ELSE IF CharAt(p, 1) = "|" THEN <<cur>> \o Alternatives(Tail(p), "")
    ELSE Alternatives(Tail(p), cur \o CharAt(p, 1))

\* does alternative p match s starting at position i
RECURSIVE MatchHere(_, _, _)
MatchHere(p, s, i) ==
    IF p = "" THEN TRUE
    ELSE LET a == CharAt(p, 1)
             rest == Tail(p)
         IN  IF a = "^" THEN i = 1 /\ MatchHere(rest, s, i)
             ELSE IF a = "$"
                  THEN /\ \/ i = Len(s) + 1
                          \/ i = Len(s) /\ CharAt(s, i) = "\n"
                       /\ MatchHere(rest, s, i)
             ELSE IF a = "."
                  THEN i <= Len(s) /\ CharAt(s, i) # "\n" /\ MatchHere(rest, s, i + 1)
             ELSE /\ i <= Len(s)
                  /\ LowerChar(CharAt(s, i)) = LowerChar(a)
                  /\ MatchHere(rest, s, i + 1)

RegexSearch(p, s) ==
    LET alts == Alternatives(p, "") IN
    \E k \in 1..Len(alts) : \E i \in 1..(Len(s) + 1) : MatchHere(alts[k], s, i)

\* ------------------------------------------------------------------------
\* bson.ObjectId: 24 hexadecimal digits; str() renders them, ObjectId(s)
\* parses them and raises on anything else
\* ------------------------------------------------------------------------
OidLen == 24

HexLower == "0123456789abcdef"

HexUpper == "0123456789ABCDEF"

HexChars == {CharAt(HexLower, v) : v \in 1..16} \cup {CharAt(HexUpper, v) : v \in 1..16}

IsHexChar(c) == c \in HexChars

HexValueOf ==
    [c \in HexChars |->
        (CHOOSE v \in 1..16 : CharAt(HexLower, v) = c \/ CharAt(HexUpper, v) = c) - 1]

HexValue(c) == HexValueOf[c]

\* ObjectId.is_valid(s)
ObjectIdValid(s) ==
    Len(s) = OidLen /\ \A i \in 1..Len(s) : IsHexChar(CharAt(s, i))

\* ObjectId(s), s valid
ObjectId(s) == [i \in 1..OidLen |-> HexValue(CharAt(s, i))]

RECURSIVE HexString(_)
HexString(digits) ==
    IF digits = << >> THEN ""
    ELSE CharAt(HexLower, Head(digits) + 1) \o HexString(Tail(digits))

\* str(oid)
str(oid) == HexString(oid)

Collections == {"song", "playlist", "channel"}

CollectionTag(c) == CASE c = "song" -> 1 [] c = "playlist" -> 2 [] c = "channel" -> 3

\* the n-th identifier the store assigns in collection c: unique, opaque
NewObjectId(c, n) ==
    [i \in 1..OidLen |-> IF i = OidLen THEN n % 16
                         ELSE IF i = OidLen - 1 THEN CollectionTag(c)
                         ELSE 0]


\* ------------------------------------------------------------------------
\* State
\* ------------------------------------------------------------------------
VARIABLES
    dbAvailable,  \* db is not None (bound once at import, main.py line 7)
    coll,         \* db[name]: each collection's documents, in insertion order
    seed,         \* each in-flight seed_channels request's position
    request,      \* the request step taken last
    response,     \* the response produced last
    ops,          \* the store operations the last request step executed
    addLog        \* history: the add_song_to_playlist requests made, and
                  \* whether each named a playlist stored at the time

vars == <<dbAvailable, coll, seed, request, response, ops, addLog>>

SeedWorkers == {1, 2}

\* one seed request at a time
SerialWorkers == {1}

\* ------------------------------------------------------------------------
\* Document Store Gateway (database.py)
\* ------------------------------------------------------------------------
NotAvailableMsg == "Database not available"

BadRegexMsg == "Regular expression is invalid"

EmptyFilter == [or |-> << >>, genre |-> None]

\* the value of a document's field as an Optional[str]
FieldValue(d, field) ==
    IF field \notin DOMAIN d THEN None
    ELSE IF field = "genre" THEN d[field]
    ELSE Some(d[field])

\* {field: {"$regex": p, "$options": "i"}}: only a string value can match
RegexCond(d, cond) ==
    LET v == FieldValue(d, cond.field) IN
    v # None /\ RegexSearch(cond.regex, v[1])

\* a filter dict: the "$or" list and the "genre" key are ANDed
Matches(d, f) ==
    /\ f.or = << >> \/ \E i \in 1..Len(f.or) : RegexCond(d, f.or[i])
    /\ f.genre = None \/ RegexCond(d, [field |-> "genre", regex |-> f.genre[1]])

FilterCompiles(f) ==
    /\ \A i \in 1..Len(f.or) : RegexCompiles(f.or[i].regex)
    /\ f.genre = None \/ RegexCompiles(f.genre[1])

\* cursor.limit(n): 0 is no limit
Take(docs, limit) ==
    IF limit = 0 \/ Len(docs) <= limit THEN docs ELSE SubSeq(docs, 1, limit)

\* get_documents(collection_name, filter_dict, limit)
get_documents(c, f, limit) ==
    IF ~dbAvailable
    THEN [exc |-> NotAvailableMsg, docs |-> << >>, ops |-> << >>]
    ELSE IF ~FilterCompiles(f)
    THEN [exc |-> BadRegexMsg, docs |-> << >>, ops |-> <<"find">>]
    ELSE [exc |-> "",
          docs |-> Take(SelectSeq(coll[c], LAMBDA d : Matches(d, f)), limit),
          ops |-> <<"find">>]

\* create_document(collection_name, data): insert, return str(inserted_id)
create_document(cl, c, data) ==
    IF ~dbAvailable
    THEN [exc |-> NotAvailableMsg, id |-> "", coll |-> cl, ops |-> << >>]
    ELSE LET oid == NewObjectId(c, Len(cl[c]) + 1)
             doc == [f \in DOMAIN data \cup {"_id"} |->
                        IF f = "_id" THEN oid ELSE data[f]]
         IN  [exc |-> "", id |-> str(oid),
              coll |-> [cl EXCEPT ![c] = Append(@, doc)],
              ops |-> <<[op |-> "insert_one", coll |-> c]>>]

\* ------------------------------------------------------------------------
\* Responses
\* ------------------------------------------------------------------------
\* a handler's return value
Ok(body) == [status |-> 200, exc |-> "", body |-> body]

\* raise HTTPException(status_code=500, detail=str(e))
HTTPException500(e) == [status |-> 500, exc |-> e, body |-> [detail |-> e]]

\* an exception that leaves the handler: the framework answers 500 with a
\* fixed text
Unhandled(e) ==
    [status |-> 500, exc |-> e, body |-> [text |-> "Internal Server Error"]]

\* NormalizeId without the del: the raw identifier stays in the item
NormalizeIdKeepRaw(d) ==
    IF "_id" \in DOMAIN d
    THEN [f \in DOMAIN d \cup {"id"} |-> IF f = "id" THEN str(d["_id"]) ELSE d[f]]
    ELSE d

\* if "_id" in d: d["id"] = str(d["_id"]); del d["_id"]
NormalizeId(d) ==
    IF "_id" \in DOMAIN d
    THEN [f \in (DOMAIN d \ {"_id"}) \cup {"id"} |->
             IF f = "id" THEN str(d["_id"]) ELSE d[f]]
    ELSE d

NormalizeIds(docs) == [i \in 1..Len(docs) |-> NormalizeId(docs[i])]


\* the record of one executed read, kept in ops
FindOp(c, f, limit) == [op |-> "find", coll |-> c, filter |-> f, limit |-> limit]

\* the ops of one get_documents call
FindOps(r, c, f, limit) == IF r.ops = << >> THEN << >> ELSE <<FindOp(c, f, limit)>>

\* ------------------------------------------------------------------------
\* schemas.py
\* ------------------------------------------------------------------------
\* Song(**payload.model_dump())
SongSchema(payload) ==
    [title |-> payload.title, artist |-> payload.artist, album |-> None,
     cover_url |-> None, audio_url |-> None, duration_sec |-> None,
     genre |-> payload.genre]

\* Playlist(name=..., description=..., song_ids=[])
PlaylistSchema(payload) ==
    [name |-> payload.name, description |-> payload.description,
     song_ids |-> << >>]

\* Channel(**payload.model_dump())
ChannelSchema(payload) ==
    [name |-> payload.name, description |-> payload.description,
     stream_url |-> payload.stream_url, genre |-> payload.genre]

\* ------------------------------------------------------------------------
\* Songs
\* ------------------------------------------------------------------------
DefaultLimit == 50

\* the "$or" of two case-insensitive regex conditions
OrFilter(field1, field2, term) ==
    [or |-> <<[field |-> field1, regex |-> term],
              [field |-> field2, regex |-> term]>>,
     genre |-> None]

\* filter_q["genre"] = {"$regex": f"^{genre}$", "$options": "i"}
WithGenre(f, genre) ==
    IF Truthy(genre)
    THEN [f EXCEPT !.genre = Some("^" \o genre[1] \o "$")]
    ELSE f

\* list_songs: the filter built from query and genre
SongFilter(query, genre) ==
    WithGenre(IF Truthy(query) THEN OrFilter("title", "artist", query[1])
              ELSE EmptyFilter,
              genre)

\* a list handler's response to a get_documents result
ListResponse(r) ==
    IF r.exc # "" THEN HTTPException500(r.exc)
    ELSE Ok([items |-> NormalizeIds(r.docs)])

list_songs(query, genre, limit) ==
    LET f == SongFilter(query, genre)
        r == get_documents("song", f, limit)
    IN  /\ request' = [handler |-> "list_songs", query |-> query,
                       genre |-> genre, limit |-> limit]
        /\ response' = ListResponse(r)
        /\ ops' = FindOps(r, "song", f, limit)
        /\ UNCHANGED <<dbAvailable, coll, seed, addLog>>

\* a create handler's response to a create_document result
CreateResponse(r, message) ==
    IF r.exc # "" THEN HTTPException500(r.exc)
    ELSE Ok([id |-> r.id, message |-> message])

create_song(payload) ==
    LET r == create_document(coll, "song", SongSchema(payload))
    IN  /\ request' = [handler |-> "create_song", payload |-> payload]
        /\ response' = CreateResponse(r, "Song added")
        /\ coll' = r.coll
        /\ ops' = r.ops
        /\ UNCHANGED <<dbAvailable, seed, addLog>>

\* ------------------------------------------------------------------------
\* Playlists
\* ------------------------------------------------------------------------
list_playlists(limit) ==
    LET r == get_documents("playlist", EmptyFilter, limit)
    IN  /\ request' = [handler |-> "list_playlists", limit |-> limit]
        /\ response' = ListResponse(r)
        /\ ops' = FindOps(r, "playlist", EmptyFilter, limit)
        /\ UNCHANGED <<dbAvailable, coll, seed, addLog>>

create_playlist(payload) ==
    LET r == create_document(coll, "playlist", PlaylistSchema(payload))
    IN  /\ request' = [handler |-> "create_playlist", payload |-> payload]
        /\ response' = CreateResponse(r, "Playlist created")
        /\ coll' = r.coll
        /\ ops' = r.ops
        /\ UNCHANGED <<dbAvailable, seed, addLog>>

\* an update document: {} or {"$addToSet": {field: value}}
EmptyUpdate == [op |-> "none"]

AddToSet(field, value) == [op |-> "$addToSet", field |-> field, value |-> value]

EmptyUpdateMsg == "update cannot be empty"

\* the driver's check of an update document, made before anything is sent
validate_ok_for_update(update) == update.op # "none"

\* $addToSet on a list: append unless present
AddToSetList(list, value) ==
    IF \E i \in 1..Len(list) : list[i] = value THEN list ELSE Append(list, value)

\* collection.find_one({"_id": {"$type": "objectId"}}): the first document
find_one(docs) == IF docs = << >> THEN << >> ELSE <<docs[1]>>

\* collection.update_one({key: val}, update): the first matching document
update_one(cl, c, key, val, update) ==
    IF ~validate_ok_for_update(update)
    THEN [exc |-> EmptyUpdateMsg, coll |-> cl, sent |-> FALSE]
    ELSE LET hits == {i \in 1..Len(cl[c]) :
                        key \in DOMAIN cl[c][i] /\ cl[c][i][key] = val}
         IN  IF hits = {}
             THEN [exc |-> "", coll |-> cl, sent |-> TRUE]
             ELSE LET i == CHOOSE j \in hits : \A k \in hits : j <= k
                  IN  [exc |-> "", sent |-> TRUE,
                       coll |-> [cl EXCEPT ![c][i][update.field] =
                                    AddToSetList(@, update.value)]]

\* lines 104-110: by ObjectId, and by the 'id' field when that raises
AddByIdOrFallback(cl, playlist_id, song_id) ==
    IF ObjectIdValid(playlist_id)
    THEN update_one(cl, "playlist", "_id", ObjectId(playlist_id),
                    AddToSet("song_ids", song_id))
    ELSE update_one(cl, "playlist", "id", playlist_id,
                    AddToSet("song_ids", song_id))

\* lines 99-113
add_song_to_playlist_result(playlist_id, song_id) ==
    IF ~dbAvailable
    THEN [response |-> HTTPException500(NotAvailableMsg), coll |-> coll,
          ops |-> << >>]
    ELSE LET found == find_one(coll["playlist"])
             probe == update_one(coll, "playlist", "_id", found, EmptyUpdate)
         IN  IF probe.exc # ""
             THEN [response |-> HTTPException500(probe.exc), coll |-> coll,
                   ops |-> <<[op |-> "find_one", coll |-> "playlist"]>>]
             ELSE LET u == AddByIdOrFallback(probe.coll, playlist_id, song_id)
                  IN  [response |-> Ok([ok |-> TRUE]), coll |-> u.coll,
                       ops |-> <<[op |-> "find_one", coll |-> "playlist"],
                                 [op |-> "update_one", coll |-> "playlist"],
                                 [op |-> "update_one", coll |-> "playlist"]>>]

\* is playlist_id the identifier of a stored playlist
PlaylistExists(playlist_id) ==
    \E i \in 1..Len(coll["playlist"]) :
        str(coll["playlist"][i]["_id"]) = playlist_id

add_song_to_playlist(playlist_id, song_id) ==
    LET r == add_song_to_playlist_result(playlist_id, song_id)
    IN  /\ Len(addLog) < MaxAdds
        /\ request' = [handler |-> "add_song_to_playlist",
                       playlist_id |-> playlist_id, song_id |-> song_id]
        /\ response' = r.response
        /\ coll' = r.coll
        /\ ops' = r.ops
        /\ addLog' = Append(addLog, [playlist_id |-> playlist_id,
                                     song_id |-> song_id,
                                     existing |-> PlaylistExists(playlist_id)])
        /\ UNCHANGED <<dbAvailable, seed>>


\* ------------------------------------------------------------------------
\* Channels
\* ------------------------------------------------------------------------
list_channels(genre, limit) ==
    LET f == WithGenre(EmptyFilter, genre)
        r == get_documents("channel", f, limit)
    IN  /\ request' = [handler |-> "list_channels", genre |-> genre,
                       limit |-> limit]
        /\ response' = ListResponse(r)
        /\ ops' = FindOps(r, "channel", f, limit)
        /\ UNCHANGED <<dbAvailable, coll, seed, addLog>>

create_channel(payload) ==
    LET r == create_document(coll, "channel", ChannelSchema(payload))
    IN  /\ request' = [handler |-> "create_channel", payload |-> payload]
        /\ response' = CreateResponse(r, "Channel added")
        /\ coll' = r.coll
        /\ ops' = r.ops
        /\ UNCHANGED <<dbAvailable, seed, addLog>>

\* seed_channels: defaults
defaults ==
    <<[name |-> "Lofi Beats FM", description |-> Some("Chill lofi for focus"),
       stream_url |-> "https://streams.ilovemusic.de/iloveradio9.mp3",
       genre |-> Some("lofi")],
      [name |-> "Classic Rock FM", description |-> Some("Rock anthems 24/7"),
       stream_url |-> "https://stream.revma.ihrhls.com/zc1469",
       genre |-> Some("rock")],
      [name |-> "Jazz Lounge", description |-> Some("Smooth jazz and lounge"),
       stream_url |-> "https://us4.internet-radio.com/proxy/club107?mp=/stream",
       genre |-> Some("jazz")]>>

AlreadySeeded == Ok([message |-> "Channels already seeded"])

Seeded == Ok([message |-> "Seeded default channels"])

\* count_documents counting only the default channels
count_default_documents(docs) ==
    Cardinality({i \in 1..Len(docs) :
                    \E k \in 1..Len(defaults) : docs[i].name = defaults[k].name})

\* db["channel"].count_documents({})
count_documents(docs) == Len(docs)

\* seed_channels, lines 149-152: the request reads the count and either
\* answers or goes on to the inserts.  A request is one thread of the
\* server; the store calls of two requests interleave.
seed_channels_count(w) ==
    /\ seed[w].pc = "idle"
    /\ request' = [handler |-> "seed_channels", phase |-> "count", worker |-> w]
    /\ IF ~dbAvailable
       THEN /\ response' = HTTPException500(NotAvailableMsg)
            /\ ops' = << >>
            /\ UNCHANGED seed
       ELSE /\ ops' = <<[op |-> "count_documents", coll |-> "channel"]>>
            /\ IF count_documents(coll["channel"]) > 0
               THEN /\ response' = AlreadySeeded
                    /\ UNCHANGED seed
               ELSE /\ seed' = [seed EXCEPT ![w] = [pc |-> "insert", k |-> 1]]
                    /\ UNCHANGED response
    /\ UNCHANGED <<dbAvailable, coll, addLog>>

\* seed_channels_insert that skips a default whose name is already stored
seed_channels_insert_guarded(w) ==
    LET k == seed[w].k
        present == \E i \in 1..Len(coll["channel"]) :
                       coll["channel"][i].name = defaults[k].name
        r == create_document(coll, "channel", ChannelSchema(defaults[k]))
    IN  /\ seed[w].pc = "insert"
        /\ request' = [handler |-> "seed_channels", phase |-> "insert",
                       worker |-> w]
        /\ coll' = IF present THEN coll ELSE r.coll
        /\ ops' = IF present THEN << >> ELSE r.ops
        /\ IF k = Len(defaults)
           THEN /\ seed' = [seed EXCEPT ![w] = [pc |-> "idle", k |-> 0]]
                /\ response' = Seeded
           ELSE /\ seed' = [seed EXCEPT ![w] = [pc |-> "insert", k |-> k + 1]]
                /\ UNCHANGED response
        /\ UNCHANGED <<dbAvailable, addLog>>

\* seed_channels, lines 173-175: one turn of the loop, and the return after
\* the last
seed_channels_insert(w) ==
    LET k == seed[w].k
        r == create_document(coll, "channel", ChannelSchema(defaults[k]))
    IN  /\ seed[w].pc = "insert"
        /\ request' = [handler |-> "seed_channels", phase |-> "insert",
                       worker |-> w]
        /\ coll' = r.coll
        /\ ops' = r.ops
        /\ IF k = Len(defaults)
           THEN /\ seed' = [seed EXCEPT ![w] = [pc |-> "idle", k |-> 0]]
                /\ response' = Seeded
           ELSE /\ seed' = [seed EXCEPT ![w] = [pc |-> "insert", k |-> k + 1]]
                /\ UNCHANGED response
        /\ UNCHANGED <<dbAvailable, addLog>>

\* ------------------------------------------------------------------------
\* AI voice commands
\* ------------------------------------------------------------------------
ChannelKeywords == <<"play channel", "open channel", "play radio", "open radio", "fm">>

ChannelStrip == <<"play", "open", "channel", "radio", "fm">>

SongKeywords == <<"play song", "find song", "play", "find", "search">>

SongStrip == <<"play song", "find song", "search song", "search", "play">>

ChannelLimit == 5

SongLimit == 10

\* any(k in t for k in ks)
ContainsAny(t, ks) == \E i \in 1..Len(ks) : Contains(t, ks[i])

\* t with each of ks removed, in the order of ks
RECURSIVE StripAll(_, _)
StripAll(t, ks) ==
    IF ks = << >> THEN t ELSE StripAll(replace(t, Head(ks)), Tail(ks))

\* (cmd.transcript or "").lower().strip()
Normalized(transcript) == strip(lower(transcript))

NoneCaught == Ok([action |-> "none", message |-> "I didn't catch that."])

NoneHelp ==
    Ok([action |-> "none",
        message |-> "Try: 'Play channel jazz' or 'Find song by Coldplay'"])

\* parse_command with the song test made before the channel test
parse_command_song_first(transcript) ==
    LET t == Normalized(transcript) IN
    IF t = "" THEN [intent |-> "empty", phrase |-> ""]
    ELSE IF ContainsAny(t, SongKeywords)
    THEN [intent |-> "song", phrase |-> strip(StripAll(t, SongStrip))]
    ELSE IF ContainsAny(t, ChannelKeywords)
    THEN [intent |-> "channel", phrase |-> strip(StripAll(t, ChannelStrip))]
    ELSE [intent |-> "unknown", phrase |-> ""]

\* lines 191-198 and 213-218: the intent of a transcript and its residual
\* phrase
parse_command(transcript) ==
    LET t == Normalized(transcript) IN
    IF t = "" THEN [intent |-> "empty", phrase |-> ""]
    ELSE IF ContainsAny(t, ChannelKeywords)
    THEN [intent |-> "channel", phrase |-> strip(StripAll(t, ChannelStrip))]
    ELSE IF ContainsAny(t, SongKeywords)
    THEN [intent |-> "song", phrase |-> strip(StripAll(t, SongStrip))]
    ELSE [intent |-> "unknown", phrase |-> ""]

\* lines 199-210 and 219-230: the query for the phrase, and the answer
intent_search(phrase, c, field1, field2, limit, action, noun) ==
    LET f == IF phrase # "" THEN OrFilter(field1, field2, phrase) ELSE EmptyFilter
        r == get_documents(c, f, limit)
    IN  [response |->
            IF r.exc # "" THEN Unhandled(r.exc)
            ELSE Ok([action |-> action, items |-> NormalizeIds(r.docs),
                     message |-> "Found " \o ToString(Len(r.docs)) \o " " \o noun]),
         ops |-> FindOps(r, c, f, limit)]

channel_intent(phrase) ==
    intent_search(phrase, "channel", "name", "genre", ChannelLimit,
                  "play_channel", "channel(s)")

song_intent(phrase) ==
    intent_search(phrase, "song", "title", "artist", SongLimit,
                  "play_song", "song(s)")

\* ai_command_result with the channel query made before the empty check
ai_command_eager(p) ==
    LET r == channel_intent(p.phrase) IN
    IF p.intent = "empty" THEN [response |-> NoneCaught, ops |-> r.ops]
    ELSE IF p.intent = "channel" THEN r
    ELSE IF p.intent = "song" THEN song_intent(p.phrase)
    ELSE [response |-> NoneHelp, ops |-> << >>]

\* lines 191-232, given the parse of the transcript
ai_command_result(p) ==
    IF p.intent = "empty" THEN [response |-> NoneCaught, ops |-> << >>]
    ELSE IF p.intent = "channel" THEN channel_intent(p.phrase)
    ELSE IF p.intent = "song" THEN song_intent(p.phrase)
    ELSE [response |-> NoneHelp, ops |-> << >>]

\* ------------------------------------------------------------------------
\* Requests the clients send
\* ------------------------------------------------------------------------
SongPayloads ==
    {[title |-> "Yellow", artist |-> "Coldplay", genre |-> Some("rock")],
     [title |-> "Rocket Man", artist |-> "Elton John", genre |-> Some("Rock Music")],
     [title |-> "So What", artist |-> "Miles Davis", genre |-> None]}

CoreSongPayloads ==
    {[title |-> "Yellow", artist |-> "Coldplay", genre |-> Some("rock")]}

PlaylistPayloads == {[name |-> "Focus", description |-> None]}

ChannelPayloads ==
    {[name |-> "Indie FM", description |-> None,
      stream_url |-> "https://example.org/indie.mp3", genre |-> Some("Rock Music")]}

\* the identifier of the first playlist, a malformed one, and a well-formed
\* one of no playlist
PlaylistIds ==
    {str(NewObjectId("playlist", 1)), "my-list", "00000000000000000000002F"}

CorePlaylistIds == {str(NewObjectId("playlist", 1))}

SongIds == {"song-1", "song-2"}

CoreSongIds == {"song-1"}

Queries == {None, Some(""), Some("cold"), Some("ROCKET")}

CoreQueries == {None, Some("cold")}

Genres == {None, Some(""), Some("Rock"), Some("rock music"), Some("r.ck"),
           Some("jazz|rock"), Some("(")}

CoreGenres == {None, Some("Rock")}

Limits == {DefaultLimit, 1}

CoreLimits == {DefaultLimit}

\* the two commands the help message gives, and a blank one
CoreTranscripts == {"Play channel jazz", "Find song by Coldplay", "   "}

\* the transcript of the residual-phrase example
ExampleTranscript == "find song by Coldplay"

Words == {"play channel", "FM", "find song", "play", "jazz"}

\* the phrases of at most n words
RECURSIVE Phrases(_)
Phrases(n) ==
    IF n = 0 THEN {""}
    ELSE LET shorter == Phrases(n - 1)
         IN  shorter \cup {IF p = "" THEN w ELSE p \o " " \o w :
                              p \in shorter, w \in Words}

Transcripts ==
    Phrases(MaxWords) \cup CoreTranscripts \cup {ExampleTranscript}
        \cup {" ", "\t\n", " FM ", "play fm (", "stop", "open radio jazz",
              "search Coldplay", "find (", "PLAY SONG yellow"}

\* each transcript's parse, computed once
Parsed == [t \in Transcripts |-> parse_command(t)]

ai_command(transcript) ==
    LET r == ai_command_result(Parsed[transcript])
    IN  /\ request' = [handler |-> "ai_command", transcript |-> transcript]
        /\ response' = r.response
        /\ ops' = r.ops
        /\ UNCHANGED <<dbAvailable, coll, seed, addLog>>



\* ------------------------------------------------------------------------
\* Specifications
\* ------------------------------------------------------------------------
NoRequest == [handler |-> "none"]

NoResponse == [status |-> 0, exc |-> "", body |-> [none |-> TRUE]]

Init ==
    /\ dbAvailable \in BOOLEAN
    /\ coll = [c \in Collections |-> << >>]
    /\ seed = [w \in SeedWorkers |-> [pc |-> "idle", k |-> 0]]
    /\ request = NoRequest
    /\ response = NoResponse
    /\ ops = << >>
    /\ addLog = << >>

\* the clients' creates are bounded
CanCreateSong == Len(coll["song"]) < MaxSongs

CanCreatePlaylist == Len(coll["playlist"]) < MaxPlaylists

CreatedChannels ==
    Cardinality({i \in 1..Len(coll["channel"]) :
                    \A k \in 1..Len(defaults) :
                        coll["channel"][i].name # defaults[k].name})

CanCreateChannel == CreatedChannels < MaxCreatedChannels

\* the whole API, a few requests of each kind
Next ==
    \/ \E q \in CoreQueries, g \in CoreGenres, l \in CoreLimits : list_songs(q, g, l)
    \/ \E p \in CoreSongPayloads : CanCreateSong /\ create_song(p)
    \/ \E l \in CoreLimits : list_playlists(l)
    \/ \E p \in PlaylistPayloads : CanCreatePlaylist /\ create_playlist(p)
    \/ \E pid \in CorePlaylistIds, sid \in CoreSongIds : add_song_to_playlist(pid, sid)
    \/ \E g \in CoreGenres, l \in CoreLimits : list_channels(g, l)
    \/ \E p \in ChannelPayloads : CanCreateChannel /\ create_channel(p)
    \/ \E w \in SerialWorkers : seed_channels_count(w)
    \/ \E w \in SerialWorkers : seed_channels_insert(w)
    \/ \E t \in CoreTranscripts : ai_command(t)

Spec == Init /\ [][Next]_vars

\* seeding and the channel collection
NextSeed ==
    \/ \E w \in SeedWorkers : seed_channels_count(w)
    \/ \E w \in SeedWorkers : seed_channels_insert(w)
    \/ \E p \in ChannelPayloads : CanCreateChannel /\ create_channel(p)
    \/ \E g \in CoreGenres, l \in Limits : list_channels(g, l)

SpecSeed == Init /\ [][NextSeed]_vars

\* playlists
NextPlaylist ==
    \/ \E p \in PlaylistPayloads : CanCreatePlaylist /\ create_playlist(p)
    \/ \E l \in Limits : list_playlists(l)
    \/ \E pid \in PlaylistIds, sid \in SongIds : add_song_to_playlist(pid, sid)

SpecPlaylist == Init /\ [][NextPlaylist]_vars

\* voice commands over a small catalog
NextAI ==
    \/ \E t \in Transcripts : ai_command(t)
    \/ \E p \in CoreSongPayloads : CanCreateSong /\ create_song(p)
    \/ \E p \in ChannelPayloads : CanCreateChannel /\ create_channel(p)

SpecAI == Init /\ [][NextAI]_vars

\* catalog queries
NextCatalog ==
    \/ \E q \in Queries, g \in Genres, l \in Limits : list_songs(q, g, l)
    \/ \E g \in Genres, l \in Limits : list_channels(g, l)
    \/ \E p \in SongPayloads : CanCreateSong /\ create_song(p)
    \/ \E p \in ChannelPayloads : CanCreateChannel /\ create_channel(p)

SpecCatalog == Init /\ [][NextCatalog]_vars


\* ------------------------------------------------------------------------
\* Properties
\* ------------------------------------------------------------------------
IsAi == request.handler = "ai_command"

IsAdd == request.handler = "add_song_to_playlist"

\* the trimmed, lowercased form of the last transcript
Trimmed == strip(lower(request.transcript))

\* C1: a transcript whose trimmed, lowercased form contains a channel
\* keyword is answered with action play_channel, never play_song, whether
\* or not it also contains a song keyword ("fm" alone included).
C1_ChannelPriority ==
    (IsAi /\ ContainsAny(Trimmed, ChannelKeywords) /\ response.exc = "")
        => response.body.action = "play_channel"

C1_Witness ==
    /\ IsAi
    /\ ContainsAny(Trimmed, <<"play channel", "fm">>)
    /\ ContainsAny(Trimmed, SongKeywords)
    /\ response.exc = ""
    /\ response.body.action = "play_channel"

\* C2: for the transcript "find song by Coldplay" the phrase searched for
\* in the song collection is exactly "by coldplay".
C2_ResidualIntact ==
    (IsAi /\ request.transcript = ExampleTranscript /\ dbAvailable)
        => ops = <<FindOp("song", OrFilter("title", "artist", "by coldplay"),
                          SongLimit)>>

\* how many times x occurs in the sequence q
Occurrences(q, x) == Cardinality({i \in 1..Len(q) : q[i] = x})

\* C3: after two add requests with the same playlist_id and song_id, for an
\* existing playlist, the song_id occurs exactly once in its song_ids.
C3_AddTwiceOnce ==
    \A i \in 1..Len(coll["playlist"]) : \A sid \in SongIds :
        Occurrences(addLog, [playlist_id |-> str(coll["playlist"][i]["_id"]),
                             song_id |-> sid, existing |-> TRUE]) >= 2
            => Occurrences(coll["playlist"][i].song_ids, sid) = 1

\* C4: with the store available, an add request naming an existing playlist
\* by its well-formed identifier returns {ok: true} and leaves song_id in
\* that playlist's song_ids; one with a malformed playlist_id returns
\* {ok: true} as well.
C4_AddReturnsOk ==
    (IsAdd /\ dbAvailable) =>
        /\ \A i \in 1..Len(coll["playlist"]) :
              str(coll["playlist"][i]["_id"]) = request.playlist_id
                  => /\ response = Ok([ok |-> TRUE])
                     /\ Occurrences(coll["playlist"][i].song_ids,
                                    request.song_id) >= 1
        /\ ~ObjectIdValid(request.playlist_id) => response = Ok([ok |-> TRUE])

IsSeedCount == request.handler = "seed_channels" /\ request.phase = "count"

IsSeedInsert == request.handler = "seed_channels" /\ request.phase = "insert"

IsDefault(d) == \E k \in 1..Len(defaults) : d.name = defaults[k].name

\* C5: a seed request that finds at least one channel record, whatever it
\* holds, answers "already seeded" and changes nothing; it goes on to insert
\* the defaults only when it found the collection empty.
C5_SeedNoOp ==
    [][IsSeedCount' =>
          /\ Len(coll["channel"]) > 0
                => response' = AlreadySeeded /\ coll' = coll /\ seed' = seed
          /\ seed' # seed => Len(coll["channel"]) = 0]_vars

C5_Witness ==
    /\ IsSeedCount
    /\ response = AlreadySeeded
    /\ Len(coll["channel"]) = 1
    /\ ~IsDefault(coll["channel"][1])
    /\ \A w \in SeedWorkers : seed[w].pc = "idle"

\* C6: whenever a request finds the store unavailable or a store call
\* raises, the response is the 500 response whose detail is the error's
\* message.
C6_UniformError ==
    response.exc # "" => response = HTTPException500(response.exc)

HasItems == "items" \in DOMAIN response.body

\* C7: every item of a list response and of a play_channel or play_song
\* response has a string id, rendering an identifier of the store, and no
\* _id.
C7_ItemsNormalized ==
    HasItems =>
        \A i \in 1..Len(response.body.items) :
            LET item == response.body.items[i] IN
            /\ "id" \in DOMAIN item
            /\ "_id" \notin DOMAIN item
            /\ item.id \in STRING
            /\ ObjectIdValid(item.id)

C7_Witness ==
    /\ IsAi
    /\ HasItems
    /\ response.body.action = "play_channel"
    /\ Len(response.body.items) >= 1
    /\ Len(coll["song"]) >= 1
    /\ Len(coll["playlist"]) >= 1

\* a transcript that is empty or only whitespace
IsBlank(t) == \A i \in 1..Len(t) : IsSpace(CharAt(t, i))

\* C8: a command whose transcript is empty or only whitespace is answered
\* with action none, and executes nothing against the store.
C8_BlankNoStore ==
    [][(IsAi' /\ IsBlank(request'.transcript)) =>
          /\ response'.exc = ""
          /\ response'.body.action = "none"
          /\ ops' = << >>
          /\ coll' = coll]_vars

C8_Witness ==
    /\ IsAi
    /\ request.transcript = "\t\n"
    /\ response.body.action = "none"
    /\ ops = << >>
    /\ dbAvailable
    /\ Len(coll["song"]) >= 1

EqualsIgnoringCase(a, b) == lower(a) = lower(b)

ContainsIgnoringCase(s, k) == Contains(lower(s), lower(k))

\* C9: with a genre term, list_songs and list_channels return only records
\* whose genre equals the term ignoring case; list_songs given a query as
\* well returns only records whose title or artist also contains the query
\* ignoring case.
C9_GenreExact ==
    (/\ request.handler \in {"list_songs", "list_channels"}
     /\ Truthy(request.genre)
     /\ response.exc = "")
        => \A i \in 1..Len(response.body.items) :
              LET item == response.body.items[i] IN
              /\ item.genre # None
              /\ EqualsIgnoringCase(item.genre[1], request.genre[1])
              /\ (request.handler = "list_songs" /\ Truthy(request.query))
                    => \/ ContainsIgnoringCase(item.title, request.query[1])
                       \/ ContainsIgnoringCase(item.artist, request.query[1])

\* C10: nothing guards the inserts of a seed request that has read count 0:
\* each adds a record whatever the collection holds by then, so two
\* requests that both read 0 leave each default stored twice.
C10_InsertsUnguarded ==
    [][IsSeedInsert' => Len(coll'["channel"]) = Len(coll["channel"]) + 1]_vars

C10_SixChannels ==
    /\ Len(coll["channel"]) = 6
    /\ \A k \in 1..Len(defaults) :
          Cardinality({i \in 1..Len(coll["channel"]) :
                          coll["channel"][i].name = defaults[k].name}) = 2
    /\ \A w \in SeedWorkers : seed[w].pc = "idle"
    /\ response = Seeded

=============================================================================
